---- MODULE Spec2Model ----
(***************************************************************************)
(* Model of zerver/lib/slack_data_to_zulip_data.py: the Slack-to-Zulip     *)
(* markdown rewrite (convert_to_zulip_markdown and its helpers), the       *)
(* display-name lookup (get_user_full_name) and the per-channel message    *)
(* loop that calls them (channel_message_to_zerver_message).               *)
(*                                                                         *)
(* A text is a sequence of one-character strings.  A character class of a  *)
(* regular expression is the set of the characters its ranges hold.        *)
(***************************************************************************)
EXTENDS Integers, Sequences, FiniteSets, TLC

(***************************************************************************)
(* Characters                                                              *)
(***************************************************************************)

\* [0-9], [A-Z] and [a-z]
Digits == {"0", "1", "2", "3", "4", "5", "6", "7", "8", "9"}

Upper ==
    {"A", "B", "C", "D", "E", "F", "G", "H", "I", "J", "K", "L", "M",
     "N", "O", "P", "Q", "R", "S", "T", "U", "V", "W", "X", "Y", "Z"}

Lower ==
    {"a", "b", "c", "d", "e", "f", "g", "h", "i", "j", "k", "l", "m",
     "n", "o", "p", "q", "r", "s", "t", "u", "v", "w", "x", "y", "z"}

\* The printable ASCII characters, [ -~], that the texts are written in.
\* The double quote (34), the backslash (92), the backtick (96) and the
\* em-dash the source lists in two classes are outside the modelled inputs.
Chars ==
    {" ", "!", "#", "$", "%", "&", "'", "(", ")", "*", "+", ",", "-", ".", "/",
     ":", ";", "<", "=", ">", "?", "@", "[", "]", "^", "_", "{", "|", "}", "~"}
        \cup Digits \cup Upper \cup Lower

Max(S) == CHOOSE x \in S : \A y \in S : y <= x

\* number of consecutive characters of class S in t from position i on
RunLen(t, i, S) ==
    CHOOSE k \in 0..(Len(t) + 1 - i) :
        /\ \A j \in 0..(k - 1) : t[i + j] \in S
        /\ (i + k > Len(t) \/ t[i + k] \notin S)

(***************************************************************************)
(* The three formatting patterns.  Each is                                 *)
(*   start, delim, inner3 repeated, inner4 repeated, delim, end            *)
(* with the same start and end alternatives.                               *)
(***************************************************************************)

\* (^|[ -(]|[+-/]|[:-?]|\{|\[|\||\^) without the ^ alternative
StartChars ==
    {" ", "!", "#", "$", "%", "&", "'", "(", "+", ",", "-", ".", "/",
     ":", ";", "<", "=", ">", "?", "{", "[", "|", "^"}

\* ($|[ -']|[+-/]|[:-?]|\}|\)|\]|\||\^) without the $ alternative
EndChars ==
    {" ", "!", "#", "$", "%", "&", "'", "+", ",", "-", ".", "/",
     ":", ";", "<", "=", ">", "?", "}", ")", "]", "|", "^"}

\* inner3 is [ -)+-}] and inner4 is [!-}]
SLACK_STRIKETHROUGH_REGEX ==
    [delim |-> "~", inner3 |-> Chars \ {"*", "~"}, inner4 |-> Chars \ {" ", "~"}]

\* inner3 is [ -~] and inner4 is [!-}]
SLACK_ITALIC_REGEX ==
    [delim |-> "_", inner3 |-> Chars, inner4 |-> Chars \ {" ", "~"}]

\* inner3 is [ -~] and inner4 is [!-}]
SLACK_BOLD_REGEX ==
    [delim |-> "*", inner3 |-> Chars, inner4 |-> Chars \ {" ", "~"}]

NoMatch == [ok |-> FALSE]

\* the first of two match attempts that succeeds
OrElse(m, other) == IF m.ok THEN m ELSE other

\* The ways (len3, len4) of closing a span opened at position open: the
\* inner3 run, the inner4 run, the closing delimiter and the end alternative.
Closings(R, t, open) ==
    {c \in UNION {{<<l3, l4>> : l4 \in 1..RunLen(t, open + 1 + l3, R.inner4)} :
                     l3 \in 0..RunLen(t, open + 1, R.inner3)} :
        /\ open + 1 + c[1] + c[2] <= Len(t)
        /\ t[open + 1 + c[1] + c[2]] = R.delim
        /\ \/ open + 1 + c[1] + c[2] = Len(t)
           \/ t[open + 2 + c[1] + c[2]] \in EndChars}

\* The match object of the span opened at open and closed at close.
Span(t, s, g1, close) ==
    [ok |-> TRUE, start |-> s, g1 |-> g1, open |-> s + g1, close |-> close,
     g6 |-> IF close = Len(t) THEN 0 ELSE 1,
     next |-> IF close = Len(t) THEN close + 1 ELSE close + 2]

\* Both quantifiers are greedy, so the backtracking search succeeds first
\* on the longest inner3, then on the longest inner4 for it.
Longest(t, s, g1, C) ==
    IF C = {}
    THEN NoMatch
    ELSE Span(t, s, g1,
              s + g1 + 1 + Max({c[1] : c \in C})
                  + Max({c[2] : c \in {d \in C : d[1] = Max({e[1] : e \in C})}}))

\* One attempt at position s with group 1 of length g1 (0 for ^, 1 for a
\* start character).
TryAt(R, t, s, g1) ==
    IF s + g1 > Len(t) \/ t[s + g1] # R.delim
    THEN NoMatch
    ELSE Longest(t, s, g1, Closings(R, t, s + g1))

\* The match starting exactly at position s: the ^ alternative is tried
\* first and only at the start of the text, then the start characters.
MatchAt(R, t, s) ==
    OrElse(IF s = 1 THEN TryAt(R, t, s, 0) ELSE NoMatch,
           IF s <= Len(t) /\ t[s] \in StartChars THEN TryAt(R, t, s, 1) ELSE NoMatch)

\* leftmost match at or after pos
RECURSIVE NextMatch(_, _, _)
NextMatch(R, t, pos) ==
    IF pos > Len(t)
    THEN NoMatch
    ELSE OrElse(MatchAt(R, t, pos), NextMatch(R, t, pos + 1))

\* the matches from the match m on
RECURSIVE matches_from(_, _, _)
matches_from(R, t, m) ==
    IF m.ok THEN <<m>> \o matches_from(R, t, NextMatch(R, t, m.next)) ELSE <<>>

\* re.finditer(regex, text): the non-overlapping matches, left to right
finditer(R, t) == matches_from(R, t, NextMatch(R, t, 1))

\* the text from pos on with the match m and the matches after it replaced
RECURSIVE sub_from(_, _, _, _, _)
sub_from(R, repl, t, pos, m) ==
    IF m.ok
    THEN SubSeq(t, pos, m.start - 1) \o repl
             \o sub_from(R, repl, t, m.next, NextMatch(R, t, m.next))
    ELSE SubSeq(t, pos, Len(t))

\* re.sub(regex, repl, text): every non-overlapping match replaced by repl
sub(R, repl, t) == sub_from(R, repl, t, 1, NextMatch(R, t, 1))

\* match.group(1) + zulip_keyword + match.group(3) + match.group(4)
\*   + zulip_keyword + match.group(6)
converted_token(t, m, zulip_keyword) ==
    SubSeq(t, m.start, m.start + m.g1 - 1) \o zulip_keyword
        \o SubSeq(t, m.open + 1, m.close - 1) \o zulip_keyword
        \o SubSeq(t, m.close + 1, m.close + m.g6)

\* The loop body of convert_markdown_syntax, for the matches ms[i..] of the
\* ORIGINAL text orig: the whole current text is re-substituted with the
\* token built from one match.
RECURSIVE resubstitute(_, _, _, _, _, _)
resubstitute(R, zulip_keyword, orig, ms, i, cur) ==
    IF i > Len(ms)
    THEN cur
    ELSE resubstitute(R, zulip_keyword, orig, ms, i + 1,
                      sub(R, converted_token(orig, ms[i], zulip_keyword), cur))

convert_markdown_syntax(text, R, zulip_keyword) ==
    resubstitute(R, zulip_keyword, text, finditer(R, text), 1, text)

(***************************************************************************)
(* Mentions                                                                *)
(***************************************************************************)

\* [a-zA-Z0-9]
Alnum == Lower \cup Upper \cup Digits

\* the rest of a mention whose "|" is at p: the short name (group 4, None
\* when it is empty) up to q, and ">"
mention_name(t, s, p, q) ==
    IF q <= Len(t) /\ t[q] = ">"
    THEN [ok |-> TRUE, start |-> s, next |-> q + 1,
          slack_id |-> SubSeq(t, s + 2, p - 1),
          has_short |-> q > p + 1,
          short_name |-> SubSeq(t, p + 1, q - 1)]
    ELSE NoMatch

\* the rest of a mention whose Slack id (group 2) ends before p
mention_id(t, s, p) ==
    IF p = s + 2 \/ p > Len(t)
    THEN NoMatch
    ELSE IF t[p] = ">"
         THEN [ok |-> TRUE, start |-> s, next |-> p + 1,
               slack_id |-> SubSeq(t, s + 2, p - 1),
               has_short |-> FALSE, short_name |-> <<>>]
         ELSE IF t[p] = "|"
              THEN mention_name(t, s, p, p + 1 + RunLen(t, p + 1, Alnum))
              ELSE NoMatch

\* SLACK_USERMENTION_REGEX at position s of a token: "<@", the Slack id
\* (group 2), an optional "|", an optional short name (group 4), ">".
\* The id and the short name are maximal runs of [a-zA-Z0-9], so the only
\* parse that can succeed ends the id at the "|" or at the ">".
MentionAt(t, s) ==
    IF s + 2 > Len(t) \/ t[s] # "<" \/ t[s + 1] # "@"
    THEN NoMatch
    ELSE mention_id(t, s, s + 2 + RunLen(t, s + 2, Alnum))

\* re.search(SLACK_USERMENTION_REGEX, token): leftmost match from pos on
RECURSIVE NextMention(_, _)
NextMention(t, pos) ==
    IF pos > Len(t)
    THEN NoMatch
    ELSE OrElse(MentionAt(t, pos), NextMention(t, pos + 1))

\* the token from pos on with the mention m and the mentions after it
\* replaced
RECURSIVE sub_mention_from(_, _, _, _)
sub_mention_from(mention, t, pos, m) ==
    IF m.ok
    THEN SubSeq(t, pos, m.start - 1) \o mention
             \o sub_mention_from(mention, t, m.next, NextMention(t, m.next))
    ELSE SubSeq(t, pos, Len(t))

\* re.sub(SLACK_USERMENTION_REGEX, mention, token)
sub_mention(mention, t) == sub_mention_from(mention, t, 1, NextMention(t, 1))

\* A Python int, as an element of a list that could hold other types.
PyInt(n) == [int |-> n]

\* the mention without its trailing space
mention_text_no_space(full_name) == <<"@", "*", "*">> \o full_name \o <<"*", "*">>

\* '@**' + full_name + '** '
mention_text(full_name) == <<"@", "*", "*">> \o full_name \o <<"*", "*", " ">>

\* A Python call either returns a value or raises.
Return(v) == [raised |-> "", value |-> v]
Raise(e) == [raised |-> e, value |-> <<>>]

\* A user record is a function from the keys it has to their values; a
\* lookup of a key it lacks raises KeyError.
get_user_full_name(user) ==
    IF "deleted" \notin DOMAIN user
    THEN Raise("KeyError")
    ELSE IF user["deleted"] = FALSE
         THEN IF "real_name" \notin DOMAIN user
              THEN Raise("KeyError")
              ELSE IF user["real_name"] = <<>>
                   THEN Return(user["name"])
                   ELSE Return(user["real_name"])
         ELSE Return(user["name"])

\* The loop of get_user_mentions over users[i..]: acc holds whether
\* mention and user_id are bound yet, and their values.
RECURSIVE mention_loop(_, _, _, _, _)
mention_loop(users, added_users, m, i, acc) ==
    IF i > Len(users)
    THEN acc
    ELSE IF \/ (users[i]["id"] = m.slack_id /\ users[i]["name"] = m.short_name
                   /\ m.has_short)
            \/ (users[i]["id"] = m.slack_id /\ ~m.has_short)
         THEN IF get_user_full_name(users[i]).raised # ""
              THEN [raised |-> get_user_full_name(users[i]).raised, bound |-> acc.bound,
                    mention |-> acc.mention, user_id |-> acc.user_id]
              ELSE mention_loop(users, added_users, m, i + 1,
                       [raised |-> "", bound |-> TRUE,
                        mention |-> mention_text(get_user_full_name(users[i]).value),
                        user_id |-> added_users[m.slack_id]])
         ELSE mention_loop(users, added_users, m, i + 1, acc)

\* The statements after the loop: when no user matched, mention is read
\* unbound.
mention_return(token, r) ==
    IF r.raised # ""
    THEN Raise(r.raised)
    ELSE IF ~r.bound
         THEN Raise("UnboundLocalError")
         ELSE Return(<<sub_mention(r.mention, token), r.user_id>>)

\* Returns (token, user_id).
get_user_mentions(token, users, added_users) ==
    mention_return(token,
        mention_loop(users, added_users, NextMention(token, 1), 1,
                     [raised |-> "", bound |-> FALSE, mention |-> <<>>,
                      user_id |-> PyInt(0)]))

(***************************************************************************)
(* Links                                                                   *)
(***************************************************************************)

\* The positions after the literal lit, matched at one of the positions P.
Lit(t, P, lit) ==
    {p + Len(lit) : p \in {q \in P : /\ q + Len(lit) - 1 <= Len(t)
                                     /\ SubSeq(t, q, q + Len(lit) - 1) = lit}}

\* The positions after lo to hi characters of class S, from a position of P.
Rep(t, P, S, lo, hi) ==
    UNION {{p + k : k \in {j \in lo..hi : j <= RunLen(t, p, S)}} : p \in P}

\* (http:\/\/www\.|https:\/\/www\.|http:\/\/|https:\/\/)? from the positions P
link_scheme(t, P) ==
    P \cup Lit(t, P, <<"h", "t", "t", "p", ":", "/", "/", "w", "w", "w", ".">>)
      \cup Lit(t, P, <<"h", "t", "t", "p", "s", ":", "/", "/", "w", "w", "w", ".">>)
      \cup Lit(t, P, <<"h", "t", "t", "p", ":", "/", "/">>)
      \cup Lit(t, P, <<"h", "t", "t", "p", "s", ":", "/", "/">>)

\* ([\-\.]{1}[a-z0-9]+)* from the positions A
RECURSIVE HostLabels(_, _)
HostLabels(t, A) ==
    IF Rep(t, Rep(t, A, {"-", "."}, 1, 1), Lower \cup Digits, 1, Len(t)) \subseteq A
    THEN A
    ELSE HostLabels(t, A \cup Rep(t, Rep(t, A, {"-", "."}, 1, 1),
                                  Lower \cup Digits, 1, Len(t)))

\* (:[0-9]{1,5})? from the positions P
link_port(t, P) == P \cup Rep(t, Lit(t, P, <<":">>), Digits, 1, 5)

\* (\/.*)? from the positions P
link_path(t, P) == P \cup Rep(t, Lit(t, P, <<"/">>), Chars, 0, Len(t))

\* (\|)? from the positions P
link_bar(t, P) == P \cup Lit(t, P, <<"|">>)

\* (?:\|([^>]+))? from the positions P
link_name(t, P) == P \cup Rep(t, Lit(t, P, <<"|">>), Chars \ {">"}, 1, Len(t))

\* re.match(LINK_REGEX, token): the pattern is anchored at both ends, so a
\* token matches when some parse reaches the end of the token.  After "<"
\* and the optional scheme come [a-z0-9]+, the labels, \.[a-z]{2,5}, then
\* the optional port, path, bar and name, and ">".
LINK_REGEX(t) ==
    Len(t) + 1 \in
        Lit(t,
            link_name(t, link_bar(t, link_path(t, link_port(t,
                Rep(t,
                    Lit(t,
                        HostLabels(t,
                            Rep(t, link_scheme(t, Lit(t, {1}, <<"<">>)),
                                Lower \cup Digits, 1, Len(t))),
                        <<".">>),
                    Lower, 2, 5))))),
            <<">">>)

(***************************************************************************)
(* str.replace, str.split, str.join                                        *)
(***************************************************************************)

\* t.replace(old, new) from position pos on
RECURSIVE replace(_, _, _, _)
replace(t, old, new, pos) ==
    IF pos + Len(old) - 1 > Len(t)
    THEN SubSeq(t, pos, Len(t))
    ELSE IF SubSeq(t, pos, pos + Len(old) - 1) = old
         THEN new \o replace(t, old, new, pos + Len(old))
         ELSE <<t[pos]>> \o replace(t, old, new, pos + 1)

\* t.split(): runs of spaces separate, no empty token is kept
RECURSIVE split_on_runs(_)
split_on_runs(t) ==
    IF Len(t) = 0
    THEN <<>>
    ELSE IF Head(t) = " "
         THEN split_on_runs(Tail(t))
         ELSE <<SubSeq(t, 1, RunLen(t, 1, Chars \ {" "}))>>
                  \o split_on_runs(SubSeq(t, RunLen(t, 1, Chars \ {" "}) + 1, Len(t)))

\* t.split(' '): every single space separates, empty tokens are kept
RECURSIVE split(_)
split(t) ==
    IF \E i \in 1..Len(t) : t[i] = " "
    THEN LET i == CHOOSE j \in 1..Len(t) :
                      t[j] = " " /\ \A k \in 1..(j - 1) : t[k] # " "
         IN  <<SubSeq(t, 1, i - 1)>> \o split(SubSeq(t, i + 1, Len(t)))
    ELSE <<t>>

\* ' '.join(tokens)
RECURSIVE join(_)
join(tokens) ==
    IF Len(tokens) = 0
    THEN <<>>
    ELSE IF Len(tokens) = 1
         THEN tokens[1]
         ELSE tokens[1] \o <<" ">> \o join(Tail(tokens))

\* the token without its first and its last character
strip_enclosing(token) == SubSeq(token, 2, Len(token) - 1)

\* token.replace('<', '').replace('>', '')
strip_brackets(token) == SelectSeq(token, LAMBDA c : c \notin {"<", ">"})

(***************************************************************************)
(* convert_to_zulip_markdown                                               *)
(***************************************************************************)

\* The assignments before the token loop: the three delimiter passes, in
\* the order strikethrough, italic, bold.
strikethrough_pass(text) ==
    convert_markdown_syntax(text, SLACK_STRIKETHROUGH_REGEX, <<"~", "~">>)

italic_pass(text) ==
    convert_markdown_syntax(text, SLACK_ITALIC_REGEX, <<"*">>)

bold_pass(text) ==
    convert_markdown_syntax(text, SLACK_BOLD_REGEX, <<"*", "*">>)

\* text.replace('<!everyone>', '@**all**')
everyone_pass(text) ==
    replace(text, <<"<", "!", "e", "v", "e", "r", "y", "o", "n", "e", ">">>,
            <<"@", "*", "*", "a", "l", "l", "*", "*">>, 1)

\* The state of the token loop: the exception raised ("" if none) and the
\* locals tokens, mentioned_users_id and has_link.
Locals(raised, tokens, mentioned, link) ==
    [raised |-> raised, tokens |-> tokens, mentioned_users_id |-> mentioned,
     has_link |-> link]

\* The link check of one iteration, on the token as it stands after the
\* mention check; is_link is the result of re.match(LINK_REGEX, token).
link_check(tokens, iterator, mentioned, link, token, is_link) ==
    Locals("",
           [tokens EXCEPT ![iterator] = IF is_link THEN strip_brackets(token) ELSE token],
           mentioned, link \/ is_link)

\* The mention check of one iteration when the token holds a mention: gm is
\* the result of the call of get_user_mentions.
mention_check(tokens, iterator, mentioned, link, gm) ==
    IF gm.raised # ""
    THEN Locals(gm.raised, tokens, mentioned, link)
    ELSE link_check(tokens, iterator, Append(mentioned, gm.value[2]), link,
                    gm.value[1], LINK_REGEX(gm.value[1]))

\* One iteration of the token loop, on tokens[iterator] (counted from 1):
\* the mention check, then the link check on the token as it then stands.
token_step(tokens, iterator, mentioned, link, users, added_users) ==
    IF MentionAt(tokens[iterator], 1).ok
    THEN mention_check(tokens, iterator, mentioned, link,
                       get_user_mentions(tokens[iterator], users, added_users))
    ELSE link_check(tokens, iterator, mentioned, link,
                    tokens[iterator], LINK_REGEX(tokens[iterator]))

\* The token loop from r.tokens[iterator] on; it stops at the first raise.
RECURSIVE token_loop(_, _, _, _)
token_loop(r, iterator, users, added_users) ==
    IF r.raised # "" \/ iterator > Len(r.tokens)
    THEN r
    ELSE token_loop(token_step(r.tokens, iterator, r.mentioned_users_id, r.has_link,
                               users, added_users),
                    iterator + 1, users, added_users)

\* the return of the call, or the exception that leaves it
convert_return(r) ==
    IF r.raised # ""
    THEN [raised |-> r.raised, content |-> <<>>,
          mentioned_users_id |-> <<>>, has_link |-> FALSE]
    ELSE [raised |-> "", content |-> join(r.tokens),
          mentioned_users_id |-> r.mentioned_users_id, has_link |-> r.has_link]

\* The whole call: (token, mentioned_users_id, has_link), or the exception.
convert_to_zulip_markdown(text, users, added_users) ==
    convert_return(
        token_loop(Locals("",
                          split(everyone_pass(bold_pass(italic_pass(
                              strikethrough_pass(text))))),
                          <<>>, FALSE),
                   1, users, added_users))

\* added_users as users_to_zerver_userprofile builds it: the Zulip id of a
\* Slack id is the count of its (last) record in users.json, counting from
\* get_model_id(UserProfile) of an empty database.
added_users_of(users) ==
    [sid \in {users[i]["id"] : i \in 1..Len(users)} |->
        PyInt(Max({i \in 1..Len(users) : users[i]["id"] = sid}))]

(***************************************************************************)
(* Inputs                                                                  *)
(***************************************************************************)

\* Longest message text, in pieces, of the mention and link families; the
\* formatting family, whose pieces are shortest, goes one piece further.
MaxPieces == 3

FormatPieces ==
    { <<"a">>, <<" ">>, <<"*", "b", "*">>, <<"_", "i", "_">>,
      <<"~", "s", "~">>, <<"~", "t", "~">> }

MentionPieces ==
    { <<" ">>,
      <<"<", "@", "U", "1", "|", "b", "o", "b", ">">>,
      <<"<", "@", "U", "1", "|", "a", "m", "y", ">">>,
      <<"<", "@", "U", "1", ">">>,
      <<"<", "@", "U", "9", ">">>,
      <<"<", "@", "U", "2", "|", "a", "m", "y", ">">> }

LinkPieces ==
    { <<"a">>, <<" ">>, <<">">>, <<"_", "i", "_">>,
      <<"<", "a", ".", "b", "c", "/">>,
      <<"<", "h", "t", "t", "p", ":", "/", "/", "a", ".", "b", "c", "/">>,
      <<"<", "!", "e", "v", "e", "r", "y", "o", "n", "e", ">">> }

\* The example texts of the documentation.
ExampleTexts ==
    { <<"a", " ", "*", "b", "o", "l", "d", "*", " ", "a", "n", "d", " ",
        "_", "i", "t", "a", "l", "_", " ", "b">>,
      <<"s", "e", "e", " ", "~", "s", "t", "r", "i", "k", "e", "~", " ",
        "n", "o", "w">>,
      <<"<", "@", "U", "1", "|", "b", "o", "b", ">">>,
      <<"<", "@", "U", "1", "|", "a", "l", "i", "c", "e", ">">>,
      <<"<", "h", "t", "t", "p", "s", ":", "/", "/", "e", "x", "a", "m", "p",
        "l", "e", ".", "c", "o", "m", ">">> }

Bob == <<"b", "o", "b">>
Amy == <<"a", "m", "y">>
BobSmith == <<"B", "o", "b", " ", "S", "m", "i", "t", "h">>
U1 == <<"U", "1">>
U2 == <<"U", "2">>

\* users.json records that users_to_zerver_userprofile imported without
\* raising: U1 with a real name, with an empty one, or deleted; U2 with an
\* empty real name.
UserAmy == [id |-> U2, name |-> Amy, real_name |-> <<>>, deleted |-> FALSE]

Directories ==
    { << [id |-> U1, name |-> Bob, real_name |-> BobSmith, deleted |-> FALSE], UserAmy >>,
      << [id |-> U1, name |-> Bob, real_name |-> <<>>, deleted |-> FALSE], UserAmy >>,
      << [id |-> U1, name |-> Bob, deleted |-> TRUE], UserAmy >> }

DefaultUsers ==
    << [id |-> U1, name |-> Bob, real_name |-> BobSmith, deleted |-> FALSE], UserAmy >>

SeqsUpTo(S, n) == UNION {[1..k -> S] : k \in 0..n}

RECURSIVE Flatten(_)
Flatten(ps) == IF Len(ps) = 0 THEN <<>> ELSE Head(ps) \o Flatten(Tail(ps))

TextsOf(pieces, n) == {Flatten(ps) : ps \in SeqsUpTo(pieces, n)}

Inputs ==
    {[users |-> DefaultUsers, text |-> t] :
        t \in TextsOf(FormatPieces, MaxPieces + 1) \cup TextsOf(LinkPieces, MaxPieces)
                  \cup ExampleTexts}
    \cup {[users |-> d, text |-> t] :
             d \in Directories, t \in TextsOf(MentionPieces, MaxPieces)}

(***************************************************************************)
(* One call of convert_to_zulip_markdown, statement by statement           *)
(***************************************************************************)

VARIABLES
    users,               \* the directory read from users.json
    arg,                 \* the text the call was given
    text,                \* the local text
    tokens,              \* the local tokens
    iterator,            \* the loop index, counted from 1
    mentioned_users_id,  \* the local list of resolved ids
    has_link,            \* the local flag
    token,               \* the local token: the joined tokens
    pc,                  \* the statement to execute next
    exc                  \* the exception raised, "" if none

\* The state of do_convert_data and of the functions it calls.
VARIABLES
    at,                  \* the position of the run
    channels,            \* channels.json
    zerver_userprofile,  \* the user profiles built so far
    added_users,         \* Slack user id -> Zulip user id
    added_channels,      \* channel name -> stream id, in insertion order
    zerver_subscription, \* the subscriptions
    zerver_recipient,    \* the recipients
    channel_index,       \* the position in added_channels.keys()
    nread,               \* the messages read so far from the channel
    message,             \* the message of the current iteration
    content,             \* its rewritten text
    message_id,          \* the id of the next message of the channel
    usermessage_id,      \* the id of the next usermessage of the channel
    zm,                  \* the messages of the channel
    zum,                 \* the usermessages of the channel
    zerver_message,      \* the messages of the channels done
    zerver_usermessage,  \* the usermessages of the channels done
    realm_exists,        \* whether a realm of the requested name exists
    written              \* the output files written so far, in order

callvars == <<arg, text, tokens, iterator, token, pc>>

runvars == <<at, channels, zerver_userprofile, added_users, added_channels,
             zerver_subscription, zerver_recipient, channel_index, nread, message,
             content, message_id, usermessage_id, zm, zum, zerver_message,
             zerver_usermessage, realm_exists, written>>

vars == <<users, mentioned_users_id, has_link, exc, callvars, runvars>>

\* the run state of a call that is looked at on its own
NoRun ==
    /\ at = "call"
    /\ channels = <<>>
    /\ zerver_userprofile = <<>>
    /\ added_users = <<>>
    /\ added_channels = <<>>
    /\ zerver_subscription = <<>>
    /\ zerver_recipient = <<>>
    /\ channel_index = 1
    /\ nread = 0
    /\ message = <<>>
    /\ content = <<>>
    /\ message_id = 1
    /\ usermessage_id = 1
    /\ zm = <<>>
    /\ zum = <<>>
    /\ zerver_message = <<>>
    /\ zerver_usermessage = <<>>
    /\ realm_exists = FALSE
    /\ written = <<>>

Init ==
    \E in \in Inputs :
        /\ users = in.users
        /\ arg = in.text
        /\ text = in.text
        /\ tokens = <<>>
        /\ iterator = 1
        /\ mentioned_users_id = <<>>
        /\ has_link = FALSE
        /\ token = <<>>
        /\ pc = "strikethrough"
        /\ exc = ""
        /\ NoRun

Strikethrough ==
    /\ pc = "strikethrough"
    /\ text' = strikethrough_pass(text)
    /\ pc' = "italic"
    /\ UNCHANGED <<users, arg, tokens, iterator, mentioned_users_id, has_link, token, exc,
                   runvars>>

Italic ==
    /\ pc = "italic"
    /\ text' = italic_pass(text)
    /\ pc' = "bold"
    /\ UNCHANGED <<users, arg, tokens, iterator, mentioned_users_id, has_link, token, exc,
                   runvars>>

Bold ==
    /\ pc = "bold"
    /\ text' = bold_pass(text)
    /\ pc' = "everyone"
    /\ UNCHANGED <<users, arg, tokens, iterator, mentioned_users_id, has_link, token, exc,
                   runvars>>

\* the replace of '<!everyone>' and the split into tokens
Everyone ==
    /\ pc = "everyone"
    /\ text' = everyone_pass(text)
    /\ tokens' = split(text')
    /\ iterator' = 1
    /\ pc' = "tokens"
    /\ UNCHANGED <<users, arg, mentioned_users_id, has_link, token, exc, runvars>>

\* one iteration of the token loop that completes
Token ==
    /\ pc = "tokens"
    /\ iterator <= Len(tokens)
    /\ LET r == token_step(tokens, iterator, mentioned_users_id, has_link,
                           users, added_users_of(users))
       IN  /\ r.raised = ""
           /\ tokens' = r.tokens
           /\ mentioned_users_id' = r.mentioned_users_id
           /\ has_link' = r.has_link
    /\ iterator' = iterator + 1
    /\ UNCHANGED <<users, arg, text, token, pc, exc, runvars>>

\* one iteration of the token loop that raises out of the call
TokenRaises ==
    /\ pc = "tokens"
    /\ iterator <= Len(tokens)
    /\ LET r == token_step(tokens, iterator, mentioned_users_id, has_link,
                           users, added_users_of(users))
       IN  /\ r.raised # ""
           /\ exc' = r.raised
    /\ pc' = "raised"
    /\ UNCHANGED <<users, arg, text, tokens, iterator, mentioned_users_id, has_link, token,
                   runvars>>

\* the join and the return
Join ==
    /\ pc = "tokens"
    /\ iterator > Len(tokens)
    /\ token' = join(tokens)
    /\ pc' = "done"
    /\ UNCHANGED <<users, arg, text, tokens, iterator, mentioned_users_id, has_link, exc,
                   runvars>>

Next == Strikethrough \/ Italic \/ Bold \/ Everyone \/ Token \/ TokenRaises \/ Join

Spec == Init /\ [][Next]_vars

(***************************************************************************)
(* do_convert_data: the users, the channels, then the messages of each     *)
(* channel                                                                 *)
(***************************************************************************)

\* get_model_id(model) when the table of the model has no row
get_model_id == 1

\* d[key] = value on a dict kept as the sequence of its items, in
\* insertion order
dict_set(d, key, value) ==
    IF \E i \in 1..Len(d) : d[i].key = key
    THEN [i \in 1..Len(d) |-> IF d[i].key = key THEN [key |-> key, value |-> value] ELSE d[i]]
    ELSE Append(d, [key |-> key, value |-> value])

\* d[key]
dict_get(d, key) == d[CHOOSE i \in 1..Len(d) : d[i].key = key].value

\* d as a function of its keys
dict_map(d) == [k \in {d[i].key : i \in 1..Len(d)} |-> dict_get(d, k)]

\* The subscriptions of the members[i..] of one channel, of ids sub_id on.
RECURSIVE member_subscriptions(_, _, _, _, _)
member_subscriptions(members, i, stream_id, sub_id, users_added) ==
    IF i > Len(members)
    THEN <<>>
    ELSE <<[recipient |-> stream_id,
            user_profile |-> dict_get(users_added, members[i]),
            id |-> sub_id]>>
             \o member_subscriptions(members, i + 1, stream_id, sub_id + 1, users_added)

\* The loop of channels_to_zerver_stream over chans[i..].
RECURSIVE channel_loop(_, _, _, _)
channel_loop(chans, i, users_added, acc) ==
    IF i > Len(chans)
    THEN acc
    ELSE LET channel == chans[i]
             subs == member_subscriptions(channel.members, 1, acc.stream_id_count,
                                          acc.subscription_id_count, users_added)
         IN  channel_loop(chans, i + 1, users_added,
                 [added_channels |->
                      dict_set(acc.added_channels, channel.name, acc.stream_id_count),
                  zerver_recipient |->
                      Append(acc.zerver_recipient,
                             [type_id |-> acc.stream_id_count,
                              id |-> acc.stream_id_count, type |-> 2]),
                  zerver_subscription |-> acc.zerver_subscription \o subs,
                  subscription_id_count |-> acc.subscription_id_count + Len(subs),
                  stream_id_count |-> acc.stream_id_count + 1])

\* The loop of channels_to_zerver_stream over profiles[i..]: the recipient
\* and the subscription of the private messages of each user.
RECURSIVE private_loop(_, _, _)
private_loop(profiles, i, acc) ==
    IF i > Len(profiles)
    THEN acc
    ELSE private_loop(profiles, i + 1,
             [acc EXCEPT
                 !.zerver_recipient =
                     Append(@, [type_id |-> profiles[i].id,
                                id |-> acc.recipient_id_count, type |-> 1]),
                 !.zerver_subscription =
                     Append(@, [recipient |-> acc.recipient_id_count,
                                user_profile |-> profiles[i].id,
                                id |-> acc.subscription_id_count]),
                 !.subscription_id_count = @ + 1,
                 !.recipient_id_count = @ + 1])

\* private recipients numbered from 1, as the streams are
first_recipient_id_shared(stream_id_count) == 1

\* recipient_id_count = stream_id_count + 1
first_recipient_id(stream_id_count) == stream_id_count + 1

channels_to_zerver_stream(chans, users_added, profiles) ==
    LET streams == channel_loop(chans, 1, users_added,
                       [added_channels |-> <<>>, zerver_recipient |-> <<>>,
                        zerver_subscription |-> <<>>,
                        subscription_id_count |-> get_model_id,
                        stream_id_count |-> get_model_id])
    IN  private_loop(profiles, 1,
            [added_channels |-> streams.added_channels,
             zerver_recipient |-> streams.zerver_recipient,
             zerver_subscription |-> streams.zerver_subscription,
             subscription_id_count |-> streams.subscription_id_count + 1,
             recipient_id_count |-> first_recipient_id(streams.stream_id_count)])

\* The usermessages of one message, for the subscriptions subs[i..].
RECURSIVE usermessages(_, _, _, _, _)
usermessages(subs, i, zulip_message, mentioned, next_id) ==
    IF i > Len(subs)
    THEN <<>>
    ELSE IF subs[i].recipient = zulip_message.recipient
         THEN <<[user_profile |-> subs[i].user_profile,
                 id |-> next_id,
                 flags_mask |->
                     IF \E k \in 1..Len(mentioned) : mentioned[k] = subs[i].user_profile
                     THEN 9 ELSE 1,
                 message |-> zulip_message.id]>>
                  \o usermessages(subs, i + 1, zulip_message, mentioned, next_id + 1)
         ELSE usermessages(subs, i + 1, zulip_message, mentioned, next_id)

\* the subtypes of the messages the loop skips
skipped_subtypes == {"channel_join", "channel_leave", "channel_name"}

is_skipped(msg) == "subtype" \in DOMAIN msg /\ msg["subtype"] \in skipped_subtypes

\* Most messages read from one channel.
MaxMessages == 2

RunUsers ==
    { << u1, UserAmy >> :
        u1 \in { [id |-> U1, name |-> Bob, real_name |-> BobSmith, deleted |-> FALSE],
                 [id |-> U1, name |-> Bob, real_name |-> <<>>, deleted |-> FALSE],
                 [id |-> U1, name |-> Bob, deleted |-> FALSE],
                 [id |-> U1, name |-> Bob, real_name |-> BobSmith, deleted |-> TRUE],
                 [id |-> U1, name |-> Bob, deleted |-> TRUE] } }

RunChannels ==
    { << [name |-> "general", members |-> <<U1, U2>>] >>,
      << [name |-> "general", members |-> <<U1, U2>>],
         [name |-> "random", members |-> <<U2>>] >> }

\* The messages a channel file can hold: plain and mentioning messages, a
\* message whose mention resolves to no user, and messages with a subtype.
RunMessages ==
    { [text |-> <<"a">>, user |-> U1],
      [text |-> <<"<", "@", "U", "1", "|", "b", "o", "b", ">">>, user |-> U2],
      [text |-> <<"<", "@", "U", "9", ">">>, user |-> U1],
      [text |-> <<"a">>, user |-> U1, subtype |-> "bot_message"],
      [text |-> <<"<", "@", "U", "9", ">">>, user |-> U2, subtype |-> "channel_join"] }
    \cup {[text |-> <<"<", "@", "U", "1", "|", "b", "o", "b", ">">>, user |-> U2,
           subtype |-> st] : st \in {"channel_join", "channel_leave", "channel_name"}}

InitRun ==
    /\ users \in RunUsers
    /\ channels \in RunChannels
    /\ realm_exists \in BOOLEAN
    /\ written = <<>>
    /\ at = "start"
    /\ zerver_userprofile = <<>>
    /\ added_users = <<>>
    /\ added_channels = <<>>
    /\ zerver_subscription = <<>>
    /\ zerver_recipient = <<>>
    /\ channel_index = 1
    /\ nread = 0
    /\ message = <<>>
    /\ content = <<>>
    /\ mentioned_users_id = <<>>
    /\ has_link = FALSE
    /\ message_id = 1
    /\ usermessage_id = 1
    /\ zm = <<>>
    /\ zum = <<>>
    /\ zerver_message = <<>>
    /\ zerver_usermessage = <<>>
    /\ exc = ""
    /\ arg = <<>>
    /\ text = <<>>
    /\ tokens = <<>>
    /\ iterator = 1
    /\ token = <<>>
    /\ pc = "caller"

\* the check of the realm name did not raise
realm_check_skipped(exists) == Return(<<>>)

\* if Realm.objects.filter(string_id = realm_name): raise Exception(...)
realm_check(exists) == IF exists THEN Raise("Exception") ELSE Return(<<>>)

\* the entry of do_convert_data up to the check of the realm name, which
\* raises: the run ends
RealmExists ==
    /\ at = "start"
    /\ realm_check(realm_exists).raised # ""
    /\ exc' = realm_check(realm_exists).raised
    /\ at' = "raised"
    /\ UNCHANGED <<realm_exists, written,
                   users, mentioned_users_id, has_link, callvars, channels,
                   zerver_userprofile, added_users, added_channels, zerver_subscription,
                   zerver_recipient, channel_index, nread, message, content, message_id,
                   usermessage_id, zm, zum, zerver_message, zerver_usermessage>>

\* the entry of do_convert_data up to the call of
\* users_to_zerver_userprofile: the realm name is free
StartRun ==
    /\ at = "start"
    /\ realm_check(realm_exists).raised = ""
    /\ at' = "users"
    /\ UNCHANGED <<realm_exists, written,
                   users, mentioned_users_id, has_link, exc, callvars, channels,
                   zerver_userprofile, added_users, added_channels, zerver_subscription,
                   zerver_recipient, channel_index, nread, message, content, message_id,
                   usermessage_id, zm, zum, zerver_message, zerver_usermessage>>

\* users_to_zerver_userprofile, one iteration that completes
ImportUser ==
    /\ at = "users"
    /\ Len(zerver_userprofile) < Len(users)
    /\ LET user == users[Len(zerver_userprofile) + 1]
           user_id_count == get_model_id + Len(zerver_userprofile)
           full_name == get_user_full_name(user)
       IN  /\ full_name.raised = ""
           /\ zerver_userprofile' =
                  Append(zerver_userprofile,
                         [full_name |-> full_name.value,
                          short_name |-> user["name"],
                          is_active |-> ~user["deleted"],
                          id |-> PyInt(user_id_count)])
           /\ added_users' = dict_set(added_users, user["id"], PyInt(user_id_count))
    /\ UNCHANGED <<realm_exists, written,
                   users, mentioned_users_id, has_link, exc, callvars, at, channels,
                   added_channels, zerver_subscription, zerver_recipient, channel_index,
                   nread, message, content, message_id, usermessage_id, zm, zum,
                   zerver_message, zerver_usermessage>>

\* users_to_zerver_userprofile, one iteration in which get_user_full_name
\* raises: the run ends
ImportUserRaises ==
    /\ at = "users"
    /\ Len(zerver_userprofile) < Len(users)
    /\ LET full_name == get_user_full_name(users[Len(zerver_userprofile) + 1])
       IN  /\ full_name.raised # ""
           /\ exc' = full_name.raised
    /\ at' = "raised"
    /\ UNCHANGED <<realm_exists, written,
                   users, mentioned_users_id, has_link, callvars, channels,
                   zerver_userprofile, added_users, added_channels, zerver_subscription,
                   zerver_recipient, channel_index, nread, message, content, message_id,
                   usermessage_id, zm, zum, zerver_message, zerver_usermessage>>

\* the call of channels_to_zerver_stream, after the last user, and the
\* dump of realm.json
ImportChannels ==
    /\ at = "users"
    /\ Len(zerver_userprofile) = Len(users)
    /\ LET r == channels_to_zerver_stream(channels, added_users, zerver_userprofile)
       IN  /\ added_channels' = r.added_channels
           /\ zerver_subscription' = r.zerver_subscription
           /\ zerver_recipient' = r.zerver_recipient
    /\ written' = Append(written, "realm.json")
    /\ channel_index' = 1
    /\ at' = "channel"
    /\ UNCHANGED <<realm_exists,
                   users, mentioned_users_id, has_link, exc, callvars, channels,
                   zerver_userprofile, added_users, nread, message, content, message_id,
                   usermessage_id, zm, zum, zerver_message, zerver_usermessage>>

\* ids that start again at 1 in every channel
first_id_of_channel(emitted) == 1

\* len(zerver_message) + 1 and len(zerver_usermessage) + 1: the first id of
\* a channel, after the records of the channels done
first_id(emitted) == Len(emitted) + 1

\* the head of the loop over added_channels.keys() and the entry of
\* channel_message_to_zerver_message
StartChannel ==
    /\ at = "channel"
    /\ channel_index <= Len(added_channels)
    /\ message_id' = first_id(zerver_message)
    /\ usermessage_id' = first_id(zerver_usermessage)
    /\ zm' = <<>>
    /\ zum' = <<>>
    /\ nread' = 0
    /\ at' = "messages"
    /\ UNCHANGED <<realm_exists, written,
                   users, mentioned_users_id, has_link, exc, callvars, channels,
                   zerver_userprofile, added_users, added_channels, zerver_subscription,
                   zerver_recipient, channel_index, message, content, zerver_message,
                   zerver_usermessage>>

\* the next message of the channel and the call of
\* convert_to_zulip_markdown on its text, which returns
ConvertMessage ==
    /\ at = "messages"
    /\ nread < MaxMessages
    /\ \E msg \in RunMessages :
           LET r == convert_to_zulip_markdown(msg["text"], users, dict_map(added_users))
           IN  /\ r.raised = ""
               /\ message' = msg
               /\ content' = r.content
               /\ mentioned_users_id' = r.mentioned_users_id
               /\ has_link' = r.has_link
    /\ nread' = nread + 1
    /\ at' = "converted"
    /\ UNCHANGED <<realm_exists, written,
                   users, exc, callvars, channels, zerver_userprofile, added_users,
                   added_channels, zerver_subscription, zerver_recipient, channel_index,
                   message_id, usermessage_id, zm, zum, zerver_message, zerver_usermessage>>

\* the next message of the channel and the call of
\* convert_to_zulip_markdown on its text, which raises: the run ends
ConvertMessageRaises ==
    /\ at = "messages"
    /\ nread < MaxMessages
    /\ \E msg \in RunMessages :
           LET r == convert_to_zulip_markdown(msg["text"], users, dict_map(added_users))
           IN  /\ r.raised # ""
               /\ message' = msg
               /\ exc' = r.raised
    /\ nread' = nread + 1
    /\ at' = "raised"
    /\ UNCHANGED <<realm_exists, written,
                   users, mentioned_users_id, has_link, callvars, channels,
                   zerver_userprofile, added_users, added_channels, zerver_subscription,
                   zerver_recipient, channel_index, content, message_id, usermessage_id,
                   zm, zum, zerver_message, zerver_usermessage>>

\* the subtype check: continue
SkipMessage ==
    /\ at = "converted"
    /\ is_skipped(message)
    /\ at' = "messages"
    /\ UNCHANGED <<realm_exists, written,
                   users, mentioned_users_id, has_link, exc, callvars, channels,
                   zerver_userprofile, added_users, added_channels, zerver_subscription,
                   zerver_recipient, channel_index, nread, message, content, message_id,
                   usermessage_id, zm, zum, zerver_message, zerver_usermessage>>

\* the rest of the loop body: the message and its usermessages
EmitMessage ==
    /\ at = "converted"
    /\ ~is_skipped(message)
    /\ LET zulip_message ==
               [id |-> message_id,
                subject |-> added_channels[channel_index].key,
                sender |-> dict_get(added_users, message["user"]),
                content |-> content,
                recipient |-> added_channels[channel_index].value,
                has_link |-> has_link]
           ums == usermessages(zerver_subscription, 1, zulip_message,
                               mentioned_users_id, usermessage_id)
       IN  /\ zm' = Append(zm, zulip_message)
           /\ zum' = zum \o ums
           /\ usermessage_id' = usermessage_id + Len(ums)
    /\ message_id' = message_id + 1
    /\ at' = "messages"
    /\ UNCHANGED <<realm_exists, written,
                   users, mentioned_users_id, has_link, exc, callvars, channels,
                   zerver_userprofile, added_users, added_channels, zerver_subscription,
                   zerver_recipient, channel_index, nread, message, content,
                   zerver_message, zerver_usermessage>>

\* the return of channel_message_to_zerver_message after the last message
\* of the channel, and the two += of the caller
EndChannel ==
    /\ at = "messages"
    /\ zerver_message' = zerver_message \o zm
    /\ zerver_usermessage' = zerver_usermessage \o zum
    /\ channel_index' = channel_index + 1
    /\ at' = "channel"
    /\ UNCHANGED <<realm_exists, written,
                   users, mentioned_users_id, has_link, exc, callvars, channels,
                   zerver_userprofile, added_users, added_channels, zerver_subscription,
                   zerver_recipient, nread, message, content, message_id, usermessage_id,
                   zm, zum>>

\* the files written after the loop over the channels, in order
output_files ==
    <<"messages-000001.json", "avatars/records.json", "uploads/records.json",
      "attachment.json", ".tar.gz">>

\* the end of the loop over the channels: the dumps and the archive
Finish ==
    /\ at = "channel"
    /\ channel_index > Len(added_channels)
    /\ written' = written \o output_files
    /\ at' = "finished"
    /\ UNCHANGED <<realm_exists,
                   users, mentioned_users_id, has_link, exc, callvars, channels,
                   zerver_userprofile, added_users, added_channels, zerver_subscription,
                   zerver_recipient, channel_index, nread, message, content, message_id,
                   usermessage_id, zm, zum, zerver_message, zerver_usermessage>>

NextRun ==
    \/ RealmExists
    \/ StartRun
    \/ ImportUser
    \/ ImportUserRaises
    \/ ImportChannels
    \/ StartChannel
    \/ ConvertMessage
    \/ ConvertMessageRaises
    \/ SkipMessage
    \/ EmitMessage
    \/ EndChannel
    \/ Finish

SpecRun == InitRun /\ [][NextRun]_vars

(***************************************************************************)
(* Properties of the markdown rewrite                                      *)
(***************************************************************************)

Count(t, c) == Cardinality({i \in 1..Len(t) : t[i] = c})

Contains(t, part) ==
    \E i \in 1..(Len(t) - Len(part) + 1) : SubSeq(t, i, i + Len(part) - 1) = part

Letters == Lower

\* t holds exactly one span d x d, x a word, with a space or an end of the
\* text on each side
FlankedSpan(t, d) ==
    /\ Count(t, d) = 2
    /\ LET i == CHOOSE k \in 1..Len(t) : t[k] = d /\ \A j \in 1..(k - 1) : t[j] # d
           j == CHOOSE k \in 1..Len(t) : t[k] = d /\ \A l \in (k + 1)..Len(t) : t[l] # d
       IN  /\ j > i + 1
           /\ \A k \in (i + 1)..(j - 1) : t[k] \in Letters
           /\ (i = 1 \/ t[i - 1] = " ")
           /\ (j = Len(t) \/ t[j + 1] = " ")

\* every * doubled and every _ turned into *, the other characters kept
RECURSIVE Remapped(_)
Remapped(t) ==
    IF Len(t) = 0
    THEN <<>>
    ELSE (IF Head(t) = "*" THEN <<"*", "*">>
          ELSE IF Head(t) = "_" THEN <<"*">> ELSE <<Head(t)>>) \o Remapped(Tail(t))

OneBoldOneItalic(t) ==
    /\ FlankedSpan(t, "*")
    /\ FlankedSpan(t, "_")
    /\ \A k \in 1..Len(t) : t[k] \in Letters \cup {" ", "*", "_"}

\* C1: a text with one bold span *b* and one italic span _i_, each between
\* spaces or text ends, among plain words, is returned with the bold span
\* as **b**, the italic span as *i* and every other character unchanged.
C1_BoldItalicRemap ==
    (pc = "done" /\ OneBoldOneItalic(arg)) => token = Remapped(arg)

\* the first directory record the reference of a mention match resolves to,
\* by the rule of the data model: same id, and no short name or same name
Resolves(m, dir) ==
    \E i \in 1..Len(dir) :
        /\ dir[i]["id"] = m.slack_id
        /\ (~m.has_short \/ dir[i]["name"] = m.short_name)

\* the token is one mention, <@ID> or <@ID|handle>, and nothing else
WholeMention(t) == MentionAt(t, 1).ok /\ MentionAt(t, 1).next = Len(t) + 1

AtToken == pc = "tokens" /\ iterator <= Len(tokens)

\* C2: the loop step on a mention token that no directory record matches
\* raises nothing, leaves the token as it is and records no identifier.
C2_UnmatchedMentionPassesThrough ==
    [][(/\ AtToken
        /\ WholeMention(tokens[iterator])
        /\ ~Resolves(MentionAt(tokens[iterator], 1), users))
       => (/\ pc' # "raised"
           /\ tokens'[iterator] = tokens[iterator]
           /\ mentioned_users_id' = mentioned_users_id)]_vars

\* every match of t from pos on replaced by its own converted token, in one
\* pass from left to right
RECURSIVE one_pass(_, _, _, _)
one_pass(R, zulip_keyword, t, pos) ==
    LET m == NextMatch(R, t, pos)
    IN  IF m.ok
        THEN SubSeq(t, pos, m.start - 1) \o converted_token(t, m, zulip_keyword)
                 \o one_pass(R, zulip_keyword, t, m.next)
        ELSE SubSeq(t, pos, Len(t))

\* C3: each delimiter pass turns the text into the text in which every match
\* has its two outer delimiters replaced and its inner and flanking
\* characters kept, as one left-to-right pass would.
C3_PassRewritesEachMatchInPlace ==
    [][/\ pc = "strikethrough" =>
              text' = one_pass(SLACK_STRIKETHROUGH_REGEX, <<"~", "~">>, text, 1)
       /\ pc = "italic" => text' = one_pass(SLACK_ITALIC_REGEX, <<"*">>, text, 1)
       /\ pc = "bold" => text' = one_pass(SLACK_BOLD_REGEX, <<"*", "*">>, text, 1)]_vars

OnlyOneItalic(t) ==
    /\ FlankedSpan(t, "_")
    /\ \A k \in 1..Len(t) : t[k] \in Letters \cup {" ", "_"}

\* C5: an italic span _x_ between spaces or text ends, in a text with no
\* other formatting delimiter, is returned as *x*, one asterisk a side.
C5_ItalicGetsOneAsterisk ==
    (pc = "done" /\ OnlyOneItalic(arg)) => token = Remapped(arg)

\* the last directory record the reference of a mention match resolves to
LastResolved(m, dir) ==
    dir[Max({i \in 1..Len(dir) :
                /\ dir[i]["id"] = m.slack_id
                /\ (~m.has_short \/ dir[i]["name"] = m.short_name)})]

\* the display name of a record: the handle when the record is deleted or
\* its real name is empty, else the real name
DisplayName(user) ==
    IF user["deleted"] \/ user["real_name"] = <<>> THEN user["name"] ELSE user["real_name"]

\* the Slack identifier as a Python str
PyStr(chars) == [str |-> chars]

Last(q) == q[Len(q)]

ZulipIdOf(slack_id, dir) ==
    CHOOSE i \in 1..Len(dir) :
        /\ dir[i]["id"] = slack_id
        /\ \A j \in (i + 1)..Len(dir) : dir[j]["id"] # slack_id

NothingRecognized(t) ==
    /\ ~NextMatch(SLACK_STRIKETHROUGH_REGEX, t, 1).ok
    /\ ~NextMatch(SLACK_ITALIC_REGEX, t, 1).ok
    /\ ~NextMatch(SLACK_BOLD_REGEX, t, 1).ok
    /\ ~Contains(t, <<"<", "!", "e", "v", "e", "r", "y", "o", "n", "e", ">">>)
    /\ \A i \in 1..Len(split(t)) :
           ~MentionAt(split(t)[i], 1).ok /\ ~LINK_REGEX(split(t)[i])

\* C7: on a text that holds nothing the rewrite recognizes the call raises
\* nothing and returns the text as it is, spacing included, with no mention
\* and has_link false; the rewrite of that result returns it again.
C7_IdentityOnPlainText ==
    NothingRecognized(arg) =>
        /\ pc # "raised"
        /\ pc = "done" =>
               /\ token = arg
               /\ mentioned_users_id = <<>>
               /\ has_link = FALSE
               /\ convert_to_zulip_markdown(token, users, added_users_of(users)).content
                      = token

\* an unrecognized text with a lone delimiter and two spaces in a row
C7_Witness ==
    /\ pc = "done"
    /\ NothingRecognized(arg)
    /\ arg = <<"~", "s", "~", "a", " ", " ">>
    /\ token = arg

\* the token without its enclosing angle brackets
WithoutEnclosing(t) == SubSeq(t, 2, Len(t) - 1)

\* C8 as stated: has_link is true exactly when a token of the text, as the
\* call splits it, matches the link pattern, and each such token is
\* returned with only its enclosing angle brackets removed.
C8_OnlyEnclosingBracketsRemoved ==
    pc = "done" =>
        /\ has_link = (\E i \in 1..Len(split(text)) : LINK_REGEX(split(text)[i]))
        /\ Len(tokens) = Len(split(text))
        /\ \A i \in 1..Len(tokens) :
               LINK_REGEX(split(text)[i]) => tokens[i] = WithoutEnclosing(split(text)[i])

\* the token without any of its < and >
RECURSIVE WithoutBrackets(_)
WithoutBrackets(t) ==
    IF Len(t) = 0
    THEN <<>>
    ELSE (IF Head(t) \in {"<", ">"} THEN <<>> ELSE <<Head(t)>>) \o WithoutBrackets(Tail(t))

\* C8 amended: has_link is true exactly when a token of the text, as the
\* call splits it after the delimiter passes and the <!everyone>
\* replacement, matches the link pattern, and each such token is returned
\* with every < and > it holds removed; the other tokens that are no
\* mention are returned as they are.
C8_AllBracketsRemoved ==
    pc = "done" =>
        /\ text = everyone_pass(bold_pass(italic_pass(strikethrough_pass(arg))))
        /\ has_link = (\E i \in 1..Len(split(text)) : LINK_REGEX(split(text)[i]))
        /\ Len(tokens) = Len(split(text))
        /\ \A i \in 1..Len(tokens) :
               /\ LINK_REGEX(split(text)[i]) => tokens[i] = WithoutBrackets(split(text)[i])
               /\ (~LINK_REGEX(split(text)[i]) /\ ~MentionAt(split(text)[i], 1).ok)
                      => tokens[i] = split(text)[i]
        /\ token = join(tokens)

\* a call on a link token with an inner >
C8_Witness ==
    /\ pc = "done"
    /\ arg = <<"<", "a", ".", "b", "c", "/", ">", ">">>
    /\ has_link
    /\ token = <<"a", ".", "b", "c", "/">>

\* C9: every strikethrough span ~x~ of the text, x a word, that has a
\* boundary (an end of the text or a boundary character) on each side is
\* rewritten to ~~x~~ between the same flanking characters.
C9_StrikethroughSpanRewritten ==
    pc = "done" =>
        \A i, j \in 1..Len(arg) :
            (/\ i + 1 < j
             /\ arg[i] = "~"
             /\ arg[j] = "~"
             /\ \A k \in (i + 1)..(j - 1) : arg[k] \in Letters
             /\ (i = 1 \/ arg[i - 1] \in StartChars)
             /\ (j = Len(arg) \/ arg[j + 1] \in EndChars))
            => Contains(token,
                        (IF i = 1 THEN <<>> ELSE <<arg[i - 1]>>) \o <<"~", "~">>
                            \o SubSeq(arg, i + 1, j - 1) \o <<"~", "~">>
                            \o (IF j = Len(arg) THEN <<>> ELSE <<arg[j + 1]>>))

(***************************************************************************)
(* Properties of the run                                                   *)
(***************************************************************************)

\* C4: convert_to_zulip_markdown is never called on the text of a message
\* whose subtype is channel_join, channel_leave or channel_name: no step of
\* the message loop that makes the call takes such a message.
C4_SkippedBeforeRewrite ==
    [][(at = "messages" /\ at' \in {"converted", "raised"}) => ~is_skipped(message')]_vars

\* C10: for each user record, get_user_full_name raises nothing and returns
\* the real name when the user is not deleted and has a non-empty real
\* name, and the short handle when the real name is absent or empty or the
\* user is deleted.
C10_FullNameFallsBackToHandle ==
    [][(at = "users" /\ Len(zerver_userprofile) < Len(users))
       => LET user == users[Len(zerver_userprofile) + 1]
          IN  /\ at' # "raised"
              /\ Len(zerver_userprofile') = Len(zerver_userprofile) + 1
              /\ Last(zerver_userprofile').full_name =
                     IF /\ ~user["deleted"]
                        /\ "real_name" \in DOMAIN user
                        /\ user["real_name"] # <<>>
                     THEN user["real_name"]
                     ELSE user["name"]]_vars

\* C11: when a realm of the requested name exists, do_convert_data raises
\* before it produces any output: the run ends at the check with an
\* exception, and none of realm.json, messages-000001.json,
\* avatars/records.json, uploads/records.json, attachment.json or the
\* .tar.gz archive is ever written.
C11_RaisesBeforeAnyOutput ==
    realm_exists =>
        /\ written = <<>>
        /\ at \in {"start", "raised"}
        /\ at = "raised" => exc = "Exception"

\* a run stopped by the check of the realm name
C11_Witness ==
    /\ realm_exists
    /\ at = "raised"
    /\ exc = "Exception"
    /\ written = <<>>

\* the records emitted so far, in emission order: those of the channels
\* done, then those of the channel being read
EmittedMessages ==
    IF at \in {"messages", "converted"} THEN zerver_message \o zm ELSE zerver_message

EmittedUsermessages ==
    IF at \in {"messages", "converted"}
    THEN zerver_usermessage \o zum
    ELSE zerver_usermessage

\* C12: across a run, the ids of the emitted messages are 1..N in emission
\* order and the ids of the emitted usermessages are 1..M in emission order,
\* so each is pairwise distinct; a skipped message consumes no id: while a
\* channel is read the next ids are N + 1 and M + 1.
C12_IdsAreDenseInEmissionOrder ==
    /\ \A i \in 1..Len(EmittedMessages) : EmittedMessages[i].id = i
    /\ \A i \in 1..Len(EmittedUsermessages) : EmittedUsermessages[i].id = i
    /\ at \in {"messages", "converted"} =>
           /\ message_id = Len(EmittedMessages) + 1
           /\ usermessage_id = Len(EmittedUsermessages) + 1

\* the second channel, after a message that was skipped and one that was
\* emitted: the message has the id 2, after the one message of the first
\* channel
C12_Witness ==
    /\ at = "messages"
    /\ channel_index = 2
    /\ Len(zerver_message) = 1
    /\ nread = 2
    /\ ~is_skipped(message)
    /\ Len(zm) = 1
    /\ zm[1].id = 2
    /\ Len(zum) = 1
    /\ zum[1].id = 3

\* the members of the channel of a name, as channels.json lists them
MembersOf(name) ==
    channels[CHOOSE j \in 1..Len(channels) : channels[j].name = name].members

\* the usermessages of the message emitted by a step
NewUsermessages == SubSeq(zum', Len(zum) + 1, Len(zum'))

\* C13: the step that emits a message of a channel emits one usermessage
\* for each member of the channel, in the order of the member
\* subscriptions of its stream, and no other: no private-message recipient
\* has the recipient id of the stream.  Each usermessage is of the emitted
\* message, and its flags_mask is 9 when the member's user id is in the
\* resolved mention list of the message, else 1.
C13_OneUsermessagePerMember ==
    [][(at = "converted" /\ ~is_skipped(message))
       => LET stream == added_channels[channel_index]
              members == MembersOf(stream.key)
          IN  /\ at' = "messages"
              /\ Len(zm') = Len(zm) + 1
              /\ Last(zm').recipient = stream.value
              /\ \A i \in 1..Len(zerver_recipient) :
                     zerver_recipient[i].type = 1 =>
                         zerver_recipient[i].id # stream.value
              /\ Len(NewUsermessages) = Len(members)
              /\ \A i \in 1..Len(members) :
                     /\ NewUsermessages[i].user_profile = dict_get(added_users, members[i])
                     /\ NewUsermessages[i].message = Last(zm').id
                     /\ NewUsermessages[i].flags_mask =
                            IF \E k \in 1..Len(mentioned_users_id) :
                                   mentioned_users_id[k] = dict_get(added_users, members[i])
                            THEN 9
                            ELSE 1]_vars

\* a message of the channel general that mentions bob: of its two members,
\* bob is flagged as mentioned and amy is not
C13_Witness ==
    /\ at = "messages"
    /\ Len(zm) = 1
    /\ ~is_skipped(message)
    /\ message["text"] = <<"<", "@", "U", "1", "|", "b", "o", "b", ">">>
    /\ added_channels[channel_index].key = "general"
    /\ mentioned_users_id = <<PyInt(1)>>
    /\ Len(zum) = 2
    /\ zum[1].user_profile = PyInt(1)
    /\ zum[1].flags_mask = 9
    /\ zum[2].user_profile = PyInt(2)
    /\ zum[2].flags_mask = 1
    /\ Len(zerver_subscription) = 4

====
